---- MODULE Spec2Model ----
(***************************************************************************)
(* Model of the Sentinel-2 point-sampling pipeline of baikal_project:      *)
(*   src/src/create_rrs_table.py  scale_msi, mask_s2_clouds, preproc       *)
(*   src/app.py                   scale_msi, mask_S2_clouds                *)
(*                                                                         *)
(* An image is seen through the one pixel that a region reduction at an    *)
(* observation point reads: a record [v, m] with v the band values and m   *)
(* the band masks (TRUE = valid).  Band values are exact rationals <<n,d>> *)
(* with d > 0, so that the 0.0001 scaling is a real multiplication.        *)
(***************************************************************************)
EXTENDS Integers, Sequences, FiniteSets, TLC

VARIABLES
    ic,          \* the image collection passed to preproc (native order)
    df,          \* the observation table passed to preproc
    df_all,      \* the module global df_all as the join finds it
    pc,          \* position in preproc, or "image" for the per-image functions
    dict_stats,  \* preproc's dict_stats: its entries in insertion order
    pos,         \* position of the for loop in dict_stats
    i,           \* the loop variable: the id of the observation being resolved
    images,      \* the filtered, scaled and masked candidates of that observation
    j,           \* index of the next candidate to reduce
    calls,       \* log of the reduceRegion calls made: <<observation id, index>>
    result,      \* the table preproc returned
    error,       \* the exception that left preproc, or "none"
    img_in,      \* input of a per-image function
    img_out,     \* its output
    op           \* which per-image function was applied

vars == <<ic, df, df_all, pc, dict_stats, pos, i, images, j, calls, result, error,
          img_in, img_out, op>>

---------------------------------------------------------------------------
(* Bounds of the model *)

MaxObs == 2

MaxImages == 2

MaxTime == 3

---------------------------------------------------------------------------
(* Exact rationals *)

RECURSIVE GCD(_, _)
GCD(a, b) == IF b = 0 THEN a ELSE GCD(b, a % b)

Abs(n) == IF n < 0 THEN 0 - n ELSE n

Norm(x) ==
    LET g == GCD(Abs(x[1]), x[2])
    IN  IF x[1] = 0 THEN <<0, 1>> ELSE <<x[1] \div g, x[2] \div g>>

Rat(n) == <<n, 1>>

RatMul(x, y) == Norm(<<x[1] * y[1], x[2] * y[2]>>)

RatLt(x, y) == x[1] * y[2] < y[1] * x[2]

---------------------------------------------------------------------------
(* Bands and images *)

S2Bands == {"B1", "B2", "B3", "B4", "B5", "B6", "B7", "B8", "B8A", "QA60"}

selected_bands == {"B2", "B3", "B4", "B5", "B6", "B7", "B8", "B8A"}

app_bands == {"B1", "B2", "B3"}

\* ee.Image.select: the image restricted to the named bands
Select(image, bands) ==
    [v |-> [b \in bands |-> image.v[b]], m |-> [b \in bands |-> image.m[b]]]

\* ee.Image.multiply by a constant: values change, masks do not
Multiply(image, k) ==
    [v |-> [b \in DOMAIN image.v |-> RatMul(image.v[b], k)], m |-> image.m]

\* ee.Image.addBands(other, None, True): bands of the same name are overwritten
AddBands(image, other) ==
    [v |-> [b \in DOMAIN image.v \cup DOMAIN other.v |->
              IF b \in DOMAIN other.v THEN other.v[b] ELSE image.v[b]],
     m |-> [b \in DOMAIN image.m \cup DOMAIN other.m |->
              IF b \in DOMAIN other.m THEN other.m[b] ELSE image.m[b]]]

\* image.reduce(ee.Reducer.min()): minimum over the unmasked bands, masked
\* when every band is masked.  A one-band image is a record [v, m].
ReduceMin(image) ==
    LET valid == {b \in DOMAIN image.v : image.m[b]}
    IN  IF valid = {} THEN [v |-> Rat(0), m |-> FALSE]
        ELSE [v |-> image.v[CHOOSE b \in valid :
                        \A c \in valid : ~RatLt(image.v[c], image.v[b])],
              m |-> TRUE]

Bool(p) == IF p THEN Rat(1) ELSE Rat(0)

Gt(band, k) == [v |-> Bool(RatLt(Rat(k), band.v)), m |-> band.m]

Eq(band, k) == [v |-> Bool(band.v = Rat(k)), m |-> band.m]

And(a, b) == [v |-> Bool(a.v # Rat(0) /\ b.v # Rat(0)), m |-> a.m /\ b.m]

RECURSIVE BitAnd(_, _)
BitAnd(a, b) ==
    IF a = 0 \/ b = 0 THEN 0
    ELSE (a % 2) * (b % 2) + 2 * BitAnd(a \div 2, b \div 2)

bitwiseAnd(band, k) == [v |-> Rat(BitAnd(band.v[1], k)), m |-> band.m]

ShiftLeft(a, n) == a * 2 ^ n

\* ee.Image.updateMask: a band stays valid where it was valid and the mask is
\* unmasked and non-zero
updateMask(image, mask) ==
    [v |-> image.v,
     m |-> [b \in DOMAIN image.m |-> image.m[b] /\ mask.m /\ mask.v # Rat(0)]]

Band(image, b) == [v |-> image.v[b], m |-> image.m[b]]

---------------------------------------------------------------------------
(* create_rrs_table.py: scale_msi and mask_s2_clouds *)
\* a slip of one decimal place in the factor
scale_factor_thousandth == <<1, 1000>>

scale_factor == <<1, 10000>>

scale_msi(image) ==
    LET opticalBands == Multiply(Select(image, selected_bands), scale_factor)
    IN  AddBands(image, opticalBands)

cloudBitMask == ShiftLeft(1, 10)
\* the cirrus bit taken one position too high
cirrusBitMask_bit12 == ShiftLeft(1, 12)

cirrusBitMask == ShiftLeft(1, 11)

mask_s2_clouds(image) ==
    LET qa == Band(image, "QA60")
        opticalBands == Select(image, selected_bands)
        mask_gt == Gt(ReduceMin(Select(opticalBands, selected_bands)), 0)
        mask == And(Eq(bitwiseAnd(qa, cloudBitMask), 0),
                    Eq(bitwiseAnd(qa, cirrusBitMask), 0))
    IN  updateMask(image, And(mask, mask_gt))

(* app.py: the same two functions over B1, B2, B3 *)

app_scale_msi(image) ==
    LET opticalBands == Multiply(Select(image, app_bands), scale_factor)
    IN  AddBands(image, opticalBands)

mask_S2_clouds(image) ==
    LET qa == Band(image, "QA60")
        opticalBands == Select(image, app_bands)
        mask_gt == Gt(ReduceMin(Select(opticalBands, app_bands)), 0)
        mask == And(Eq(bitwiseAnd(qa, cloudBitMask), 0),
                    Eq(bitwiseAnd(qa, cirrusBitMask), 0))
    IN  updateMask(image, And(mask, mask_gt))

---------------------------------------------------------------------------
(* Inputs: raw pixels, images, collections, observation tables *)

ProfileA ==
    [b \in S2Bands |->
        CASE b = "B1" -> 800  [] b = "B2" -> 1000 [] b = "B3" -> 2000
          [] b = "B4" -> 1500 [] b = "B5" -> 1200 [] b = "B6" -> 900
          [] b = "B7" -> 700  [] b = "B8" -> 600  [] b = "B8A" -> 500
          [] OTHER -> 0]

ProfileB ==
    [b \in S2Bands |->
        CASE b = "B1" -> 300  [] b = "B2" -> 400  [] b = "B3" -> 640
          [] b = "B4" -> 520  [] b = "B5" -> 450  [] b = "B6" -> 350
          [] b = "B7" -> 250  [] b = "B8" -> 3    [] b = "B8A" -> 120
          [] OTHER -> 0]

\* a raw pixel: digital counts dn, quality word qa, the bands in `masked` carry
\* no data and the bands in `zeroed` read 0
Pixel(dn, qa, masked, zeroed) ==
    [v |-> [b \in S2Bands |->
              IF b = "QA60" THEN Rat(qa)
              ELSE IF b \in zeroed THEN Rat(0) ELSE Rat(dn[b])],
     m |-> [b \in S2Bands |-> b \notin masked]]

QAVals == {0, 1, ShiftLeft(1, 10), ShiftLeft(1, 11), ShiftLeft(3, 10)}

DataBands == S2Bands \ {"QA60"}

PixelCatalog ==
    { Pixel(dn, qa, masked, zeroed) :
        dn \in {ProfileA, ProfileB},
        qa \in QAVals,
        masked \in {{}, selected_bands} \cup {{b} : b \in DataBands},
        zeroed \in {{}} \cup {{b} : b \in DataBands} }

ClearPixel == Pixel(ProfileA, 0, {}, {})

CloudyPixel == Pixel(ProfileA, ShiftLeft(1, 10), {}, {})

PartialPixel == Pixel(ProfileB, 0, {"B2"}, {})

NoB3Pixel == Pixel(ProfileB, 0, {"B3"}, {})

ScenePixels == {ClearPixel, CloudyPixel, PartialPixel, NoB3Pixel}

Points == {1, 2}

\* footprints are nested: {1}, {1, 2}
Footprints == {1..n : n \in Points}

ObsTimes == {1, 2}

Collections(imgs) == UNION {[1..n -> imgs] : n \in 0..MaxImages}

Ids == 1..MaxObs

\* the CHL a table measures for an observation id; `shift` tells tables apart
Chl(id, shift) == 10 * id + shift

Obs(id, t, p, shift) ==
    [id |-> id, datetime |-> t, point |-> p, CHL |-> Chl(id, shift)]

\* tables of at most n rows with distinct ids, listed in any order
Tables(times, points, n) ==
    { tab \in UNION {[1..k -> {Obs(id, t, p, 0) :
                                  id \in Ids, t \in times, p \in points}]
                     : k \in 0..n} :
        \A a, b \in DOMAIN tab : a # b => tab[a].id # tab[b].id }

\* another table: other measurements, and the last id is not in its index
OtherTable == [k \in 1..(MaxObs - 1) |-> Obs(k, 1, 1, 1)]

\* what the name df_all can be bound to when preproc reads it: the table
\* passed (as in __main__), another table, or nothing
Globals(passed) ==
    {[bound |-> TRUE, tab |-> passed],
     [bound |-> TRUE, tab |-> OtherTable],
     [bound |-> FALSE, tab |-> <<>>]}

NotRead == [bound |-> FALSE, tab |-> <<>>]

None == <<>>

NaN == 0 - 1

\* no image is held
NoImage == <<>>

---------------------------------------------------------------------------
(* create_rrs_table.py: preproc *)

\* date_of_observation.advance(n, "day"), time counted in days
advance(t, n) == t + n
\* a date filter that also keeps the end instant
filterDate_closed(coll, start, end) ==
    SelectSeq(coll, LAMBDA c : start <= c.time /\ c.time <= end)

\* ic.filterDate(start, end): start inclusive, end exclusive; the collection
\* keeps its order
filterDate(coll, start, end) ==
    SelectSeq(coll, LAMBDA c : start <= c.time /\ c.time < end)

\* .filterBounds(ee.Geometry.Point(lon, lat))
filterBounds(coll, p) == SelectSeq(coll, LAMBDA c : p \in c.foot)

\* .map(scale_msi): scale_msi applied to every image
map_scale_msi(coll) ==
    [k \in DOMAIN coll |-> [coll[k] EXCEPT !.px = scale_msi(coll[k].px)]]

\* .map(mask_s2_clouds)
map_mask_s2_clouds(coll) ==
    [k \in DOMAIN coll |-> [coll[k] EXCEPT !.px = mask_s2_clouds(coll[k].px)]]

\* an image of the collection knows its index in it (system:index)
Indexed(coll) ==
    [k \in DOMAIN coll |-> [idx |-> k, time |-> coll[k].time,
                            foot |-> coll[k].foot, px |-> coll[k].px]]

\* lines 104-117
Candidates(coll, obs) ==
    LET date_of_observation == obs.datetime
        start_date == advance(date_of_observation, 0 - 1)
        end_date == advance(date_of_observation, 1)
    IN  map_mask_s2_clouds(
            map_scale_msi(
                filterBounds(filterDate(Indexed(coll), start_date, end_date),
                             obs.point)))

\* reduceRegion(ee.Reducer.median(), Point, scale=20).getInfo(): the point
\* selects one pixel; the median of a masked pixel is None
reduceRegion(image) ==
    [b \in DOMAIN image.px.v |->
        IF image.px.m[b] THEN image.px.v[b] ELSE None]
\* the test made on another band than the reference band
Accepted_B2(v_mean) == v_mean["B2"] # None

\* the test inverted
Accepted_inverted(v_mean) == v_mean["B3"] = None

\* line 133
Accepted(v_mean) == v_mean["B3"] # None

HasId(tab, id) == \E k \in DOMAIN tab : tab[k].id = id

Row(tab, id) == tab[CHOOSE k \in DOMAIN tab : tab[k].id = id]

\* .loc[:, ["B2", ..., "B8A"]]
Loc(stats) == [b \in selected_bands |-> stats[b]]

Entry(key, tag, data) == [key |-> key, tag |-> tag, data |-> data]

\* lines 138-140
Kept(d) == SelectSeq(d, LAMBDA e : e.tag # "None")
\* a from_dict that sorts the index
from_dict_sorted(d) ==
    LET at(k) == CHOOSE n \in DOMAIN d :
                    Cardinality({m \in DOMAIN d : d[m].key <= d[n].key}) = k
    IN  [k \in DOMAIN d |-> [id |-> d[at(k)].key, bands |-> Loc(d[at(k)].data)]]

\* pd.DataFrame.from_dict(dict_stats, orient="index").loc[...]: one row per
\* key, in the dict's order
from_dict(d) == [k \in DOMAIN d |-> [id |-> d[k].key, bands |-> Loc(d[k].data)]]

\* .join(series): a left join on the index, the left rows keep their order
join(left, chl) ==
    [k \in DOMAIN left |->
        [id |-> left[k].id, bands |-> left[k].bands,
         CHL |-> IF HasId(chl, left[k].id) THEN Row(chl, left[k].id).CHL
                 ELSE NaN]]

\* dict_stats[i] = found_stats, then the next i of the for loop
Store(found) ==
    /\ dict_stats' = [dict_stats EXCEPT ![pos] =
                        IF found = None
                        THEN Entry(dict_stats[pos].key, "None", None)
                        ELSE Entry(dict_stats[pos].key, "stats", found)]
    /\ pos' = pos + 1
    /\ pc' = IF pos < Len(dict_stats) THEN "query" ELSE "build"

\* lines 99-102
BuildDict ==
    /\ pc = "call"
    /\ dict_stats' = [k \in DOMAIN df |->
                        Entry(df[k].id, "datetime", df[k].datetime)]
    /\ pos' = 1
    /\ pc' = IF Len(df) > 0 THEN "query" ELSE "build"
    /\ UNCHANGED <<ic, df, df_all, i, images, j, calls, result, error,
                   img_in, img_out, op>>

\* lines 103-120: the query of one observation; no image, nothing to scan
Query ==
    /\ pc = "query"
    /\ i' = dict_stats[pos].key
    /\ images' = Candidates(ic, Row(df, i'))
    /\ IF Len(images') # 0
       THEN /\ j' = 1
            /\ pc' = "scan"
            /\ UNCHANGED <<dict_stats, pos>>
       ELSE /\ Store(None)
            /\ UNCHANGED j
    /\ UNCHANGED <<ic, df, df_all, calls, result, error, img_in, img_out, op>>

\* lines 121-136: one pass of the for j loop
Reduce ==
    /\ pc = "scan"
    /\ LET v_mean == reduceRegion(images[j])
       IN  /\ calls' = Append(calls, <<i, images[j].idx>>)
           /\ IF Accepted(v_mean)
              THEN /\ Store(v_mean)
                   /\ UNCHANGED j
              ELSE IF j < Len(images)
                   THEN /\ j' = j + 1
                        /\ UNCHANGED <<dict_stats, pos, pc>>
                   ELSE /\ Store(None)
                        /\ UNCHANGED j
    /\ UNCHANGED <<ic, df, df_all, i, images, result, error,
                   img_in, img_out, op>>

\* a getInfo() call raises (the request fails, times out, or the row's
\* datetime or coordinates are rejected): nothing in preproc catches it
ProviderError ==
    /\ pc \in {"query", "scan"}
    /\ pc' = "raised"
    /\ error' = "EEException"
    /\ IF pc = "query"
       THEN /\ i' = dict_stats[pos].key
            /\ images' = Candidates(ic, Row(df, i'))
       ELSE UNCHANGED <<i, images>>
    /\ UNCHANGED <<ic, df, df_all, dict_stats, pos, j, calls, result,
                   img_in, img_out, op>>

\* lines 138-145: the None entries are deleted; from_dict of an empty dict
\* has no columns and .loc raises; df_all is read last
Assemble ==
    /\ pc = "build"
    /\ dict_stats' = Kept(dict_stats)
    /\ \E g \in Globals(df) :
        /\ df_all' = g
        /\ IF Len(dict_stats') = 0
           THEN /\ pc' = "raised"
                /\ error' = "KeyError"
                /\ UNCHANGED result
           ELSE IF ~g.bound
           THEN /\ pc' = "raised"
                /\ error' = "NameError"
                /\ UNCHANGED result
           ELSE /\ pc' = "returned"
                /\ result' = join(from_dict(dict_stats'), g.tab)
                /\ UNCHANGED error
    /\ UNCHANGED <<ic, df, pos, i, images, j, calls, img_in, img_out, op>>

---------------------------------------------------------------------------
(* The per-image functions applied to one image *)

Apply(name, out) ==
    /\ pc = "image"
    /\ op = "none"
    /\ op' = name
    /\ img_out' = out
    /\ UNCHANGED <<ic, df, df_all, pc, dict_stats, pos, i, images, j, calls,
                   result, error, img_in>>

ScaleMsi == Apply("scale_msi", scale_msi(img_in))

MaskS2Clouds == Apply("mask_s2_clouds", mask_s2_clouds(img_in))

AppScaleMsi == Apply("app.scale_msi", app_scale_msi(img_in))

AppMaskS2Clouds == Apply("app.mask_S2_clouds", mask_S2_clouds(img_in))

---------------------------------------------------------------------------
(* Initial states *)

Locals ==
    /\ dict_stats = <<>>
    /\ pos = 0
    /\ i = 0
    /\ images = <<>>
    /\ j = 0
    /\ calls = <<>>
    /\ result = <<>>
    /\ error = "none"
    /\ df_all = NotRead

\* preproc(ic, df) is about to run
InitCall(imgs, tabs) ==
    /\ ic \in Collections(imgs)
    /\ df \in tabs
    /\ pc = "call"
    /\ Locals
    /\ img_in = NoImage
    /\ img_out = NoImage
    /\ op = "n/a"

\* scenes that differ in content and footprint, all at the observations' date
InitScenes ==
    InitCall({[time |-> 1, foot |-> f, px |-> p] :
                 f \in Footprints, p \in ScenePixels},
             Tables({1}, Points, MaxObs))

\* clear scenes that differ in date and footprint, one observation
InitDates ==
    InitCall({[time |-> t, foot |-> f, px |-> ClearPixel] :
                 t \in 0..MaxTime, f \in Footprints},
             Tables(ObsTimes, Points, 1))

\* one of the per-image functions is about to be applied to an image
InitImage ==
    /\ ic = <<>>
    /\ df = <<>>
    /\ pc = "image"
    /\ Locals
    /\ img_in \in PixelCatalog
    /\ img_out = img_in
    /\ op = "none"

Init == InitScenes \/ InitDates \/ InitImage

Next ==
    \/ BuildDict
    \/ Query
    \/ Reduce
    \/ ProviderError
    \/ Assemble
    \/ ScaleMsi
    \/ MaskS2Clouds
    \/ AppScaleMsi
    \/ AppMaskS2Clouds

Spec == Init /\ [][Next]_vars

---------------------------------------------------------------------------
(* Vocabulary of the properties *)

Covers(n, obs) == obs.point \in ic[n].foot

\* acquisition from one day before the observation up to, not including, one
\* day after it
InHalfOpenWindow(n, obs) ==
    obs.datetime - 1 <= ic[n].time /\ ic[n].time < obs.datetime + 1

\* acquisition at most one day away from the observation
WithinOneDay(n, obs) ==
    ic[n].time - obs.datetime <= 1 /\ obs.datetime - ic[n].time <= 1

CandidateIdx(obs) ==
    {n \in DOMAIN ic : InHalfOpenWindow(n, obs) /\ Covers(n, obs)}

BitClear(q, n) == (q \div 2 ^ n) % 2 = 0

MinPositive(image, bands) ==
    /\ \E b \in bands : image.m[b]
    /\ \A b \in bands : image.m[b] => image.v[b][1] > 0

\* the pixel passes the cloud, cirrus and positivity tests
Unmasked(image, bands) ==
    /\ BitClear(image.v["QA60"][1], 10)
    /\ BitClear(image.v["QA60"][1], 11)
    /\ MinPositive(image, bands)

\* the candidates whose B3 median is non-null: B3 holds data and the pixel
\* passes the tests
ValidIdx(obs) ==
    {n \in CandidateIdx(obs) :
        ic[n].px.m["B3"] /\ Unmasked(ic[n].px, selected_bands)}

\* the medians of the n-th image of the collection, scaled and masked
Sample(n) ==
    LET px == mask_s2_clouds(scale_msi(ic[n].px))
    IN  [b \in S2Bands |-> IF px.m[b] THEN px.v[b] ELSE None]

MinOf(S) == CHOOSE x \in S : \A y \in S : x <= y

\* B2..B8A of the first candidate whose B3 median is non-null
FirstValidBands(obs) ==
    LET first == Sample(MinOf(ValidIdx(obs)))
    IN  [b \in selected_bands |-> first[b]]

Nth(S, n) == CHOOSE x \in S : Cardinality({y \in S : y <= x}) = n

RowsFor(id) == {r \in DOMAIN result : result[r].id = id}

PosIn(tab, id) == CHOOSE k \in DOMAIN tab : tab[k].id = id

CallsOf(id) == SelectSeq(calls, LAMBDA c : c[1] = id)

MaskedAsClaimed(bands) ==
    /\ img_out.v = img_in.v
    /\ \A b \in S2Bands :
        img_out.m[b] <=> (img_in.m[b] /\ Unmasked(img_in, bands))

---------------------------------------------------------------------------
(* The claims *)

\* C1: when preproc returns, every observation with a candidate whose B3
\* median is non-null has exactly one row, and its B2..B8A are the medians of
\* the first such candidate in the collection's order, nulls included.
C1_FirstValidCandidate ==
    pc = "returned" =>
        \A k \in DOMAIN df :
            ValidIdx(df[k]) # {} =>
                /\ Cardinality(RowsFor(df[k].id)) = 1
                /\ \A r \in RowsFor(df[k].id) :
                    result[r].bands = FirstValidBands(df[k])

\* C1 witness: a returned row taken from a second candidate, the first having
\* a null B3, and carrying a null in another band.
C1_Witness ==
    /\ pc = "returned"
    /\ \E k \in DOMAIN df :
        /\ ValidIdx(df[k]) # {}
        /\ MinOf(CandidateIdx(df[k])) < MinOf(ValidIdx(df[k]))
        /\ RowsFor(df[k].id) # {}
        /\ \E b \in selected_bands :
            Sample(MinOf(ValidIdx(df[k])))[b] = None

\* C2: given a table of observations, preproc never fails for want of a
\* resolvable one (no KeyError), and a returned table has no row for an
\* observation without a valid candidate.
C2_DropsUnresolved ==
    /\ Len(df) > 0 => error # "KeyError"
    /\ pc = "returned" =>
        \A r \in DOMAIN result : ValidIdx(Row(df, result[r].id)) # {}

\* C3: a failing provider call never leaves preproc as an exception.
C3_ErrorNotPropagated == ~(pc = "raised" /\ error = "EEException")

\* C4: every returned row carries the CHL that df, the table passed to
\* preproc, holds for its id, after the columns B2..B8A.
C4_ChlOfPassedTable ==
    pc = "returned" =>
        \A r \in DOMAIN result :
            /\ DOMAIN result[r].bands = selected_bands
            /\ result[r].CHL = Row(df, result[r].id).CHL

C7_ScaleLinear ==
    /\ op = "scale_msi" =>
        /\ img_out.m = img_in.m
        /\ \A b \in S2Bands :
            IF b \in selected_bands
            THEN img_out.v[b][1] * 10000 * img_in.v[b][2]
                    = img_in.v[b][1] * img_out.v[b][2]
            ELSE img_out.v[b] = img_in.v[b]
    /\ (pc = "returned" /\ Len(ic) = 1 /\ ic[1].px = ClearPixel) =>
        \A r \in DOMAIN result :
            /\ result[r].bands["B2"] = <<1, 10>>
            /\ result[r].bands["B3"] = <<1, 5>>
            /\ result[r].bands["B8A"] = <<1, 20>>

\* C7 witness: a table returned from a collection of one clear image.
C7_Witness ==
    /\ pc = "returned"
    /\ Len(ic) = 1
    /\ ic[1].px = ClearPixel
    /\ ClearPixel.v["B2"] = Rat(1000)
    /\ Len(result) >= 1

\* the candidates held for observation i, and every image reduced, are the
\* images of the collection in the window that cover the point; the window
\* is the closed one or the half-open one
InWindow(n, obs, closed) ==
    IF closed THEN WithinOneDay(n, obs) ELSE InHalfOpenWindow(n, obs)

ScansExactly(closed) ==
    /\ i # 0 =>
        /\ {images[k].idx : k \in DOMAIN images} =
              {n \in DOMAIN ic :
                  InWindow(n, Row(df, i), closed) /\ Covers(n, Row(df, i))}
        /\ \A a, b \in DOMAIN images : a < b => images[a].idx < images[b].idx
    /\ \A c \in DOMAIN calls :
        /\ InWindow(calls[c][2], Row(df, calls[c][1]), closed)
        /\ Covers(calls[c][2], Row(df, calls[c][1]))

\* C8 as stated: the candidates are exactly the covering images acquired at
\* most one day from the observation, t + 1 day included.
C8_WithinOneDay == ScansExactly(TRUE)

\* C8 amended: the candidates are exactly the covering images acquired from
\* t - 1 day (included) to t + 1 day (excluded), in the collection's order.
C8_HalfOpenWindow == ScansExactly(FALSE)

\* C8 witness: an image acquired exactly one day after the observation covers
\* its point and is no candidate, one acquired a day before it is reduced.
C8_Witness ==
    /\ i # 0
    /\ \E n \in DOMAIN ic :
        /\ ic[n].time = Row(df, i).datetime + 1
        /\ Covers(n, Row(df, i))
    /\ \E c \in DOMAIN calls :
        /\ calls[c][1] = i
        /\ ic[calls[c][2]].time = Row(df, i).datetime - 1

\* C9: once preproc has ended, every observation has the row (or no row) that
\* a run on that observation alone gives: the first valid candidate's medians
\* (the observation whose own provider call failed is left aside).
C9_Independent ==
    pc \in {"returned", "raised"} =>
        \A k \in DOMAIN df :
            ~(error = "EEException" /\ i = df[k].id) =>
                /\ (pc = "returned" /\ RowsFor(df[k].id) # {})
                      <=> ValidIdx(df[k]) # {}
                /\ \A r \in RowsFor(df[k].id) :
                    result[r].bands = FirstValidBands(df[k])

\* C10: the reductions made for an observation are its candidates in the
\* collection's order, one at a time; none follows one whose B3 median is
\* non-null; once the observation is settled they stop at the first valid
\* candidate or cover all candidates; no candidate, no reduction.
C10_ShortCircuit ==
    \A k \in DOMAIN df :
        LET C == CandidateIdx(df[k])
            V == ValidIdx(df[k])
            cs == CallsOf(df[k].id)
        IN  /\ Len(cs) <= Cardinality(C)
            /\ \A n \in DOMAIN cs : cs[n][2] = Nth(C, n)
            /\ \A n \in DOMAIN cs : n < Len(cs) => cs[n][2] \notin V
            /\ (pc \in {"build", "returned"}) =>
                  IF V = {} THEN Len(cs) = Cardinality(C)
                  ELSE Len(cs) > 0 /\ cs[Len(cs)][2] = MinOf(V)

\* C10 witness: an observation with two candidates whose first is valid has
\* been settled with a single reduction.
C10_Witness ==
    /\ pc = "build"
    /\ \E k \in DOMAIN df :
        /\ Cardinality(CandidateIdx(df[k])) >= 2
        /\ MinOf(CandidateIdx(df[k])) \in ValidIdx(df[k])
        /\ Len(CallsOf(df[k].id)) = 1

====
